---- MODULE Spec2Model ----
(***************************************************************************)
(* Model of the image browser in src/main.py: the filesystem scanner       *)
(* (list_subdirs, list_images), the thumbnail cache (thumb_for), the grid  *)
(* layout (compute_columns, build_thumbnail_grid), the sidebar tree and    *)
(* the main render loop with its callbacks.                                *)
(*                                                                         *)
(* File and directory names are sequences of one-character strings, a path *)
(* is the sequence of its components, a toolkit item id is a positive      *)
(* integer drawn from one counter (dpg.generate_uuid), and Python's None   *)
(* is 0 where an id is expected and "None" where a tag is expected.        *)
(***************************************************************************)
EXTENDS Integers, Sequences, FiniteSets, TLC

VARIABLES
    pc,             \* position of the main program: build_ui, resize0, loop, done
    PIL_OK,         \* whether the import of PIL succeeded (lines 12-17)
    root_dir,       \* state["root_dir"]
    current_dir,    \* state["current_dir"]
    images_in_dir,  \* state["images_in_dir"]
    thumb_tex,      \* state["thumb_tex"]: a function from cached paths to texture ids
    thumb_items,    \* state["thumb_items"]
    grid_table,     \* state["grid_table"]
    grid_child,     \* state["grid_child"]
    last_w,         \* local of the render loop
    main_window,    \* <<width, height>> of the item "main_window"
    path_label,     \* value of the item "path_label"
    sidebar_tree,   \* the item "sidebar_tree": its label and its children
    dpg_tables,     \* the tables that exist in the toolkit: id -> table
    rect_w,         \* width the toolkit reports for the grid child
    uuid,           \* last item id the toolkit generated
    decode_calls,   \* the decodes the last step ran: path -> succeeded
    fn_arg,         \* argument of the pure function under test
    fn_ret          \* its result

vars == <<pc, PIL_OK, root_dir, current_dir, images_in_dir, thumb_tex,
          thumb_items, grid_table, grid_child, last_w, main_window, path_label, sidebar_tree, dpg_tables,
          rect_w, uuid, decode_calls, fn_arg, fn_ret>>

----------------------------------------------------------------------------
(* Bounds *)

\* longest directory listing handed to list_images on its own
MaxEntries == 3
\* widest width handed to compute_columns on its own
MaxWidth == 600
\* item ids the toolkit may hand out in one run
MaxUuid == 5

----------------------------------------------------------------------------
(* Program constants *)

THUMB_SIZE == 192
THUMB_PADDING == 8
None == 0
NoTag == "None"
DefaultWidth == 800
SUPPORTED_EXT ==
    { <<".", "j", "p", "g">>, <<".", "j", "p", "e", "g">>, <<".", "p", "n", "g">>,
      <<".", "b", "m", "p">>, <<".", "g", "i", "f">>, <<".", "t", "i", "f">>,
      <<".", "t", "i", "f", "f">>, <<".", "w", "e", "b", "p">> }

----------------------------------------------------------------------------
(* Strings: code points, str.lower and the order of str *)

Ord ==
    [c \in {".", "A", "B", "G", "J", "N", "P",
            "a", "b", "c", "e", "f", "g", "h", "i", "j", "m", "n", "p", "t",
            "w", "x"} |->
        CASE c = "." -> 46
          [] c = "A" -> 65  [] c = "B" -> 66  [] c = "G" -> 71  [] c = "J" -> 74
          [] c = "N" -> 78  [] c = "P" -> 80
          [] c = "a" -> 97  [] c = "b" -> 98  [] c = "c" -> 99  [] c = "e" -> 101
          [] c = "f" -> 102 [] c = "g" -> 103 [] c = "h" -> 104 [] c = "i" -> 105
          [] c = "j" -> 106 [] c = "m" -> 109 [] c = "n" -> 110 [] c = "p" -> 112
          [] c = "t" -> 116 [] c = "w" -> 119 [] c = "x" -> 120]

Chr(n) == CHOOSE c \in DOMAIN Ord : Ord[c] = n

LowerChar(c) == IF Ord[c] >= 65 /\ Ord[c] <= 90 THEN Chr(Ord[c] + 32) ELSE c

Lower(s) == [i \in 1..Len(s) |-> LowerChar(s[i])]

RECURSIVE StrLess(_, _)
StrLess(a, b) ==
    IF b = <<>> THEN FALSE
    ELSE IF a = <<>> THEN TRUE
    ELSE IF Ord[Head(a)] # Ord[Head(b)] THEN Ord[Head(a)] < Ord[Head(b)]
    ELSE StrLess(Tail(a), Tail(b))

\* index of the last "." of a name, 0 when there is none (str.rfind, 1-based)
RFindDot(name) ==
    LET dots == {i \in 1..Len(name) : name[i] = "."}
    IN IF dots = {} THEN 0 ELSE CHOOSE i \in dots : \A j \in dots : j <= i

\* PurePath.suffix: the last dot and what follows it, when the dot is neither
\* the first nor the last character of the name
Suffix(name) ==
    LET i == RFindDot(name)
    IN IF 1 < i /\ i < Len(name) THEN SubSeq(name, i, Len(name)) ELSE <<>>

\* PurePath.name: the last component of a path
PathName(path) == IF path = <<>> THEN <<>> ELSE path[Len(path)]

----------------------------------------------------------------------------
(* Filesystem scanner *)

\* sorted(xs, key=lambda x: x.name.lower()): a stable sort on the lowered name
RECURSIVE InsertByName(_, _)
InsertByName(x, sorted) ==
    IF sorted = <<>> THEN <<x>>
    ELSE IF StrLess(Lower(x.name), Lower(Head(sorted).name))
         THEN <<x>> \o sorted
         ELSE <<Head(sorted)>> \o InsertByName(x, Tail(sorted))

RECURSIVE SortedByName(_)
SortedByName(xs) ==
    IF xs = <<>> THEN <<>>
    ELSE InsertByName(xs[Len(xs)], SortedByName(SubSeq(xs, 1, Len(xs) - 1)))

\* is_image_file that compares the suffix as it is spelled
is_image_file_cased(x) == x.kind = "file" /\ Suffix(x.name) \in SUPPORTED_EXT

is_image_file(x) == x.kind = "file" /\ Lower(Suffix(x.name)) \in SUPPORTED_EXT

\* (x for x in xs if x.is_dir())
RECURSIVE DirEntries(_)
DirEntries(xs) ==
    IF xs = <<>> THEN <<>>
    ELSE (IF Head(xs).kind = "dir" THEN <<Head(xs)>> ELSE <<>>) \o DirEntries(Tail(xs))

\* (x for x in xs if is_image_file(x))
RECURSIVE ImageEntries(_)
ImageEntries(xs) ==
    IF xs = <<>> THEN <<>>
    ELSE (IF is_image_file(Head(xs)) THEN <<Head(xs)>> ELSE <<>>)
         \o ImageEntries(Tail(xs))

\* the entries of p.iterdir() as paths: p / x.name
PathsOf(p, xs) == [i \in 1..Len(xs) |-> p \o <<xs[i].name>>]

\* it is the outcome of p.iterdir(): [err |-> it raised, ents |-> the entries]
list_subdirs(p, it) ==
    IF it.err THEN <<>> ELSE PathsOf(p, SortedByName(DirEntries(it.ents)))

list_images(p, it) ==
    IF it.err THEN <<>> ELSE PathsOf(p, ImageEntries(SortedByName(it.ents)))

----------------------------------------------------------------------------
(* Thumbnail cache *)

\* dict.get(key): None when the key is absent
Get(d, k) == IF k \in DOMAIN d THEN d[k] ELSE None

\* d[k] = v
Put(d, k, v) == [x \in DOMAIN d \cup {k} |-> IF x = k THEN v ELSE d[x]]

\* thumb_for that never looks the path up in the cache
thumb_for_nocache(path, ok, tt, id) ==
    IF ~PIL_OK
    THEN [ret |-> None, thumb_tex |-> tt, uuid |-> id, tried |-> FALSE]
    ELSE IF ok
    THEN [ret |-> id + 1,
          thumb_tex |-> [x \in DOMAIN tt \cup {path} |->
                            IF x = path THEN id + 1 ELSE tt[x]],
          uuid |-> id + 1, tried |-> TRUE]
    ELSE [ret |-> None, thumb_tex |-> tt, uuid |-> id, tried |-> TRUE]

\* thumb_for that registers and caches a texture before the decode fails
thumb_for_cachefail(path, ok, tt, id) ==
    IF ~PIL_OK
    THEN [ret |-> None, thumb_tex |-> tt, uuid |-> id, tried |-> FALSE]
    ELSE IF path \in DOMAIN tt /\ tt[path] # None
    THEN [ret |-> tt[path], thumb_tex |-> tt, uuid |-> id, tried |-> FALSE]
    ELSE [ret |-> IF ok THEN id + 1 ELSE None,
          thumb_tex |-> [x \in DOMAIN tt \cup {path} |->
                            IF x = path THEN id + 1 ELSE tt[x]],
          uuid |-> id + 1, tried |-> TRUE]

\* thumb_for(path) with the cache tt and the last generated id; ok tells whether
\* Image.open .. add_static_texture run without raising.  ret is the returned
\* value, tried whether the decode was run.
thumb_for(path, ok, tt, id) ==
    IF ~PIL_OK
    THEN [ret |-> None, thumb_tex |-> tt, uuid |-> id, tried |-> FALSE]
    ELSE IF Get(tt, path) # None
    THEN [ret |-> Get(tt, path), thumb_tex |-> tt, uuid |-> id, tried |-> FALSE]
    ELSE IF ok
    THEN [ret |-> id + 1, thumb_tex |-> Put(tt, path, id + 1), uuid |-> id + 1,
          tried |-> TRUE]
    ELSE [ret |-> None, thumb_tex |-> tt, uuid |-> id, tried |-> TRUE]

----------------------------------------------------------------------------
(* Grid layout *)

Max(a, b) == IF a >= b THEN a ELSE b

available_grid_width(child, w) ==
    IF child = NoTag THEN DefaultWidth
    ELSE IF w > 0 THEN w ELSE DefaultWidth

\* compute_columns without the floor of one column
compute_columns_nomax(avail_w) == avail_w \div (THUMB_SIZE + THUMB_PADDING)

compute_columns(avail_w) == Max(1, avail_w \div (THUMB_SIZE + THUMB_PADDING))

\* clear_grid_items that leaves the old table in place
clear_grid_items_keep(tables, table) == tables

\* clear_grid_items: the tables left once state["grid_table"] is deleted
clear_grid_items(tables, table) ==
    IF table # None /\ table \in DOMAIN tables
    THEN [t \in DOMAIN tables \ {table} |-> tables[t]]
    ELSE tables

\* the cell of the empty folder (lines 194-197)
PlaceholderCell ==
    [kind |-> "text", texture_tag |-> None,
     label |-> IF PIL_OK THEN "No images in this folder."
               ELSE "Pillow not installed. Thumbs disabled.",
     user_data |-> <<>>, text |-> <<>>]

\* the cell of image p whose thumbnail is tex (lines 203-216)
ImageCell(p, tex) ==
    [kind |-> IF tex # None THEN "image_button" ELSE "button",
     texture_tag |-> tex,
     label |-> IF tex # None THEN "" ELSE "Open",
     user_data |-> p, text |-> PathName(p)]

\* the loop of lines 200-216 that starts a row every cols + 1 images
RECURSIVE GridLoop_widerow(_, _, _, _, _)
GridLoop_widerow(imgs, i, cols, dec, acc) ==
    IF i > Len(imgs) THEN acc
    ELSE LET p == imgs[i]
             t == thumb_for(p, p \in dec, acc.thumb_tex, acc.uuid)
             cell == ImageCell(p, t.ret)
             rows == IF (i - 1) % (cols + 1) = 0
                     THEN Append(acc.rows, <<cell>>)
                     ELSE [acc.rows EXCEPT ![Len(acc.rows)] = Append(@, cell)]
         IN GridLoop_widerow(imgs, i + 1, cols, dec,
                [thumb_tex |-> t.thumb_tex, uuid |-> t.uuid,
                 calls |-> IF t.tried
                           THEN [x \in DOMAIN acc.calls \cup {p} |->
                                    IF x = p THEN t.ret # None ELSE acc.calls[x]]
                           ELSE acc.calls,
                 rows |-> rows,
                 items |-> acc.items
                           \o <<[item |-> "item_handler_registry", user_data |-> p],
                                [item |-> "group", user_data |-> p]>>])

\* the loop of lines 200-216 that a failed decode ends
RECURSIVE GridLoop_abort(_, _, _, _, _)
GridLoop_abort(imgs, i, cols, dec, acc) ==
    IF i > Len(imgs) THEN acc
    ELSE LET p == imgs[i]
             t == thumb_for(p, p \in dec, acc.thumb_tex, acc.uuid)
             cell == ImageCell(p, t.ret)
             rows == IF (i - 1) % cols = 0
                     THEN Append(acc.rows, <<cell>>)
                     ELSE [acc.rows EXCEPT ![Len(acc.rows)] = Append(@, cell)]
         IN IF t.tried /\ t.ret = None
            THEN [acc EXCEPT !.calls = [x \in DOMAIN acc.calls \cup {p} |->
                                           IF x = p THEN FALSE ELSE acc.calls[x]]]
            ELSE GridLoop_abort(imgs, i + 1, cols, dec,
                [thumb_tex |-> t.thumb_tex, uuid |-> t.uuid,
                 calls |-> IF t.tried
                           THEN [x \in DOMAIN acc.calls \cup {p} |->
                                    IF x = p THEN TRUE ELSE acc.calls[x]]
                           ELSE acc.calls,
                 rows |-> rows,
                 items |-> acc.items
                           \o <<[item |-> "item_handler_registry", user_data |-> p],
                                [item |-> "group", user_data |-> p]>>])

\* the loop of lines 200-216 from image i on; acc carries the cache, the last
\* id, the decodes run, the rows built and state["thumb_items"]
RECURSIVE GridLoop(_, _, _, _, _)
GridLoop(imgs, i, cols, dec, acc) ==
    IF i > Len(imgs) THEN acc
    ELSE LET p == imgs[i]
             t == thumb_for(p, p \in dec, acc.thumb_tex, acc.uuid)
             cell == ImageCell(p, t.ret)
             rows == IF (i - 1) % cols = 0
                     THEN Append(acc.rows, <<cell>>)
                     ELSE [acc.rows EXCEPT ![Len(acc.rows)] = Append(@, cell)]
         IN GridLoop(imgs, i + 1, cols, dec,
                [thumb_tex |-> t.thumb_tex, uuid |-> t.uuid,
                 calls |-> IF t.tried THEN Put(acc.calls, p, t.ret # None)
                           ELSE acc.calls,
                 rows |-> rows,
                 items |-> acc.items
                           \o <<[item |-> "item_handler_registry", user_data |-> p],
                                [item |-> "group", user_data |-> p]>>])

\* build_thumbnail_grid that adds no row for an empty folder
build_thumbnail_grid_norow(child, imgs, dec) ==
    LET tables == clear_grid_items(dpg_tables, grid_table)
        cols == compute_columns(available_grid_width(child, rect_w))
        table_id == uuid + 1
        start == [thumb_tex |-> thumb_tex, uuid |-> table_id, calls |-> <<>>,
                  rows |-> <<>>, items |-> <<>>]
        acc == GridLoop(imgs, 1, cols, dec, start)
    IN [thumb_tex |-> acc.thumb_tex, uuid |-> acc.uuid, calls |-> acc.calls,
        thumb_items |-> acc.items, grid_table |-> table_id,
        dpg_tables |-> [t \in DOMAIN tables \cup {table_id} |->
                           IF t = table_id
                           THEN [parent |-> child, columns |-> cols,
                                 rows |-> acc.rows]
                           ELSE tables[t]]]

\* build_thumbnail_grid with state["grid_child"] = child and
\* state["images_in_dir"] = imgs; dec is the set of paths the imaging library
\* decodes at this moment.  The result carries every value it leaves.
build_thumbnail_grid(child, imgs, dec) ==
    LET tables == clear_grid_items(dpg_tables, grid_table)
        cols == compute_columns(available_grid_width(child, rect_w))
        table_id == uuid + 1
        start == [thumb_tex |-> thumb_tex, uuid |-> table_id, calls |-> <<>>,
                  rows |-> <<>>, items |-> <<>>]
        acc == IF imgs = <<>>
               THEN [start EXCEPT !.rows = <<<<PlaceholderCell>>>>,
                                  !.items = <<[item |-> "text", user_data |-> <<>>]>>]
               ELSE GridLoop(imgs, 1, cols, dec, start)
    IN [thumb_tex |-> acc.thumb_tex, uuid |-> acc.uuid, calls |-> acc.calls,
        thumb_items |-> acc.items, grid_table |-> table_id,
        dpg_tables |-> Put(tables, table_id,
                           [parent |-> child, columns |-> cols,
                            rows |-> acc.rows])]

Range(f) == {f[i] : i \in DOMAIN f}

\* the decode outcomes that matter to a build on imgs: thumb_for decodes only
\* the paths that are not cached yet
Decodes(imgs) ==
    SUBSET {p \in Range(imgs) : PIL_OK /\ Get(thumb_tex, p) = None}

\* the assignments a grid build makes to the state, for every set of paths the
\* imaging library may decode at this moment
Rebuild(child, imgs) ==
    \E dec \in Decodes(imgs) :
       LET b == build_thumbnail_grid(child, imgs, dec)
       IN /\ b.uuid <= MaxUuid
          /\ thumb_tex' = b.thumb_tex
          /\ uuid' = b.uuid
          /\ decode_calls' = b.calls
          /\ thumb_items' = b.thumb_items
          /\ grid_table' = b.grid_table
          /\ dpg_tables' = b.dpg_tables

----------------------------------------------------------------------------
(* The environment: the directories, what iterdir may yield, the widths *)

File(n) == [name |-> n, kind |-> "file"]
Dir(n) == [name |-> n, kind |-> "dir"]

Home == << <<"h">> >>
SubB == Home \o << <<"B">> >>
Suba == Home \o << <<"a">> >>
Dirs == {Home, SubB, Suba}

a_jpg == <<"a", ".", "j", "p", "g">>
b_PNG == <<"b", ".", "P", "N", "G">>
c_txt == <<"c", ".", "t", "x", "t">>
x_gif == <<"x", ".", "g", "i", "f">>

Raised == [err |-> TRUE, ents |-> <<>>]
Yields(ents) == [err |-> FALSE, ents |-> ents]

\* what p.iterdir() may do, for each directory
IterDir(p) ==
    IF p = Home
    THEN { Yields(<<File(b_PNG), Dir(<<"B">>), File(a_jpg), File(c_txt),
                    Dir(<<"a">>)>>),
           Yields(<<File(x_gif), File(b_PNG), Dir(<<"B">>), File(a_jpg),
                    Dir(<<"a">>)>>) }
    ELSE IF p = Suba
    THEN { Yields(<<>>), Yields(<<File(x_gif)>>) }
    ELSE { Raised, Yields(<<File(c_txt)>>) }

\* widths the toolkit may report for the grid child; 0 before the first frame
Widths == {0, 150, 500}

\* screen sizes GetSystemMetrics may report
Screens == {<<1920, 1080>>}

\* app_data the toolkit may hand to resize_callback; <<>> is malformed
AppData == {<<1000, 700>>, <<>>}

\* what the directory dialog may hand to on_dir_chosen
Selections == Dirs \cup {<<>>, Home \o <<a_jpg>>}

----------------------------------------------------------------------------
(* Handlers *)

\* load_directory_images(path) with the outcome it of iterdir
load_directory_images(path, it) ==
    /\ current_dir' = path
    /\ images_in_dir' = list_images(path, it)
    /\ path_label' = path

\* rebuild_sidebar_tree with the outcome it of iterdir on the new root
rebuild_sidebar_tree(root, it) ==
    sidebar_tree' =
        [label |-> PathName(root),
         children |-> LET subs == list_subdirs(root, it)
                      IN [i \in 1..Len(subs) |->
                             [label |-> PathName(subs[i]), user_data |-> subs[i]]]]

\* set_root_directory(path) with state["grid_child"] = child; each of its two
\* iterdir calls may yield any outcome the directory allows
set_root_directory(path, child) ==
    /\ root_dir' = path
    /\ \E it \in IterDir(path) : load_directory_images(path, it)
    /\ \E it \in IterDir(path) : rebuild_sidebar_tree(path, it)
    /\ Rebuild(child, images_in_dir')

\* resize_callback that loads the current directory again before it rebuilds
resize_callback_rescan(app_data) ==
    IF Len(app_data) < 2
    THEN /\ decode_calls' = <<>>
         /\ UNCHANGED <<root_dir, current_dir, images_in_dir, path_label,
                        sidebar_tree, main_window, thumb_tex, uuid, thumb_items,
                        grid_table, dpg_tables>>
    ELSE /\ main_window' = <<app_data[1], app_data[2] - 30>>
         /\ \E it \in IterDir(current_dir) :
               load_directory_images(current_dir, it)
         /\ UNCHANGED <<root_dir, sidebar_tree>>
         /\ Rebuild(grid_child, images_in_dir')

\* resize_callback(sender, app_data); app_data of fewer than two numbers makes
\* the conversion raise, and the callback returns
resize_callback(app_data) ==
    IF Len(app_data) < 2
    THEN /\ decode_calls' = <<>>
         /\ UNCHANGED <<root_dir, current_dir, images_in_dir, path_label,
                        sidebar_tree, main_window, thumb_tex, uuid, thumb_items,
                        grid_table, dpg_tables>>
    ELSE /\ main_window' = <<app_data[1], app_data[2] - 30>>
         /\ UNCHANGED <<root_dir, current_dir, images_in_dir, path_label,
                        sidebar_tree>>
         /\ Rebuild(grid_child, images_in_dir')

\* on_folder_click with the path a sidebar button carries
on_folder_click(user_data) ==
    /\ \E it \in IterDir(user_data) : load_directory_images(user_data, it)
    /\ UNCHANGED <<root_dir, sidebar_tree, main_window>>
    /\ Rebuild(grid_child, images_in_dir')

\* on_dir_chosen with the selection of the directory dialog
on_dir_chosen(sel) ==
    IF sel # <<>> /\ sel \in Dirs
    THEN /\ set_root_directory(sel, grid_child)
         /\ UNCHANGED main_window
    ELSE /\ decode_calls' = <<>>
         /\ UNCHANGED <<root_dir, current_dir, images_in_dir, path_label,
                        sidebar_tree, main_window, thumb_tex, uuid, thumb_items,
                        grid_table, dpg_tables>>

\* lines 314-318 of the render loop: the width is measured and the grid is
\* rebuilt when it is not 0 and differs from last_w
render_loop_body(gw) ==
    IF grid_child # NoTag /\ gw # 0 /\ gw # last_w
    THEN /\ last_w' = gw
         /\ UNCHANGED <<root_dir, current_dir, images_in_dir, path_label,
                        sidebar_tree, main_window>>
         /\ Rebuild(grid_child, images_in_dir')
    ELSE /\ decode_calls' = <<>>
         /\ UNCHANGED <<root_dir, current_dir, images_in_dir, path_label,
                        sidebar_tree, main_window, last_w, thumb_tex, uuid,
                        thumb_items, grid_table, dpg_tables>>

----------------------------------------------------------------------------
(* The main program and the callbacks the toolkit runs *)

Init ==
    /\ pc = "build_ui"
    /\ PIL_OK \in BOOLEAN
    /\ root_dir = Home
    /\ current_dir = Home
    /\ images_in_dir = <<>>
    /\ thumb_tex = <<>>
    /\ thumb_items = <<>>
    /\ grid_table = None
    /\ grid_child = NoTag
    /\ last_w = 0
    /\ main_window = <<0, 0>>
    /\ path_label = <<>>
    /\ sidebar_tree = [label |-> <<>>, children |-> <<>>]
    /\ dpg_tables = <<>>
    /\ rect_w = 0
    /\ uuid = 0
    /\ decode_calls = <<>>
    /\ fn_arg = <<>>
    /\ fn_ret = <<>>

\* build_ui (lines 226-250): the items are made, then set_root_directory
BuildUI ==
    /\ pc = "build_ui"
    /\ pc' = "resize0"
    /\ grid_child' = "grid_child"
    /\ main_window' = <<900, 820>>
    /\ set_root_directory(root_dir, "grid_child")
    /\ UNCHANGED <<PIL_OK, last_w, rect_w, fn_arg, fn_ret>>

\* line 303: resize_callback(None, [vw, vh]) with the size of the screen
StartupResize ==
    /\ pc = "resize0"
    /\ pc' = "loop"
    /\ \E screen \in Screens :
          resize_callback(<<Max(800, screen[1] - 260), Max(600, screen[2] - 30)>>)
    /\ UNCHANGED <<PIL_OK, grid_child, last_w, rect_w, fn_arg, fn_ret>>

\* one iteration of the render loop (lines 308-319); render_dearpygui_frame
\* lays the window out, which sets the width the next iteration measures.
\* The frame counter and the title it is written to (lines 309-313) are read
\* by nothing else and are left out.
RenderFrame ==
    /\ pc = "loop"
    /\ render_loop_body(rect_w)
    /\ rect_w' \in Widths
    /\ UNCHANGED <<pc, PIL_OK, grid_child, fn_arg, fn_ret>>

\* the viewport is resized
OnResize ==
    /\ pc = "loop"
    /\ \E app_data \in AppData : resize_callback(app_data)
    /\ UNCHANGED <<pc, PIL_OK, grid_child, last_w, rect_w, fn_arg, fn_ret>>

\* one of the "Open folder" buttons of the sidebar is clicked
OnFolderClick ==
    /\ pc = "loop"
    /\ \E k \in DOMAIN sidebar_tree.children :
          on_folder_click(sidebar_tree.children[k].user_data)
    /\ UNCHANGED <<pc, PIL_OK, grid_child, last_w, rect_w, fn_arg, fn_ret>>

\* the directory dialog is closed with a selection
OnDirChosen ==
    /\ pc = "loop"
    /\ \E sel \in Selections : on_dir_chosen(sel)
    /\ UNCHANGED <<pc, PIL_OK, grid_child, last_w, rect_w, fn_arg, fn_ret>>

\* the window is closed: the loop ends and destroy_context removes every item
Quit ==
    /\ pc = "loop"
    /\ pc' = "done"
    /\ dpg_tables' = <<>>
    /\ decode_calls' = <<>>
    /\ UNCHANGED <<PIL_OK, root_dir, current_dir, images_in_dir, thumb_tex,
                   thumb_items, grid_table, grid_child, last_w, main_window,
                   path_label, sidebar_tree, rect_w, uuid, fn_arg, fn_ret>>

Next ==
    \/ BuildUI
    \/ StartupResize
    \/ RenderFrame
    \/ OnResize
    \/ OnFolderClick
    \/ OnDirChosen
    \/ Quit

Spec == Init /\ [][Next]_vars

----------------------------------------------------------------------------
(* list_images on its own: any listing of up to MaxEntries entries *)

A_JPG == <<"A", ".", "J", "P", "G">>
dot_png == <<".", "p", "n", "g">>
jpg == <<"j", "p", "g">>
a_b_gif == <<"a", ".", "b", ".", "g", "i", "f">>
a_jpg_dot == <<"a", ".", "j", "p", "g", ".">>

EntryPool ==
    { File(b_PNG), File(a_jpg), File(c_txt), File(A_JPG), File(dot_png),
      File(jpg), File(a_b_gif), File(a_jpg_dot), Dir(x_gif),
      [name |-> x_gif, kind |-> "other"] }

\* the listings of a directory: no two entries share a name
Listings ==
    { ents \in UNION {[1..n -> EntryPool] : n \in 0..MaxEntries} :
        \A i, j \in DOMAIN ents : i # j => ents[i].name # ents[j].name }

\* the state of the program while a pure function is applied on its own
Idle ==
    /\ PIL_OK = TRUE
    /\ root_dir = Home
    /\ current_dir = Home
    /\ images_in_dir = <<>>
    /\ thumb_tex = <<>>
    /\ thumb_items = <<>>
    /\ grid_table = None
    /\ grid_child = NoTag
    /\ last_w = 0
    /\ main_window = <<0, 0>>
    /\ path_label = <<>>
    /\ sidebar_tree = [label |-> <<>>, children |-> <<>>]
    /\ dpg_tables = <<>>
    /\ rect_w = 0
    /\ uuid = 0
    /\ decode_calls = <<>>

IdleVars ==
    <<PIL_OK, root_dir, current_dir, images_in_dir, thumb_tex, thumb_items,
      grid_table, grid_child, last_w, main_window, path_label, sidebar_tree,
      dpg_tables, rect_w, uuid, decode_calls>>

InitList ==
    /\ Idle
    /\ pc = "list_images"
    /\ fn_arg \in [err : BOOLEAN, ents : Listings]
    /\ fn_ret = [done |-> FALSE, value |-> <<>>]

CallListImages ==
    /\ pc = "list_images"
    /\ ~fn_ret.done
    /\ fn_ret' = [done |-> TRUE, value |-> list_images(Home, fn_arg)]
    /\ UNCHANGED <<pc, fn_arg>>
    /\ UNCHANGED IdleVars

SpecList == InitList /\ [][CallListImages]_vars

----------------------------------------------------------------------------
(* compute_columns on its own: any width up to MaxWidth, then wider ones *)

InitCols ==
    /\ Idle
    /\ pc = "compute_columns"
    /\ fn_arg \in 0..MaxWidth
    /\ fn_ret = [done |-> FALSE, value |-> 0]

CallComputeColumns ==
    /\ pc = "compute_columns"
    /\ ~fn_ret.done
    /\ fn_ret' = [done |-> TRUE, value |-> compute_columns(fn_arg)]
    /\ UNCHANGED <<pc, fn_arg>>
    /\ UNCHANGED IdleVars

\* the function is applied again to a width that is no smaller
Widen ==
    /\ pc = "compute_columns"
    /\ fn_ret.done
    /\ \E w \in fn_arg..MaxWidth :
          /\ fn_arg' = w
          /\ fn_ret' = [done |-> TRUE, value |-> compute_columns(w)]
    /\ UNCHANGED pc
    /\ UNCHANGED IdleVars

NextCols == CallComputeColumns \/ Widen

SpecCols == InitCols /\ [][NextCols]_vars

----------------------------------------------------------------------------
(* What the claims speak of *)

\* the grid table of state["grid_table"] exists in the toolkit
TableExists == grid_table # None /\ grid_table \in DOMAIN dpg_tables

\* the cells of the rows, row by row
RECURSIVE Flatten(_)
Flatten(rows) == IF rows = <<>> THEN <<>> ELSE Head(rows) \o Flatten(Tail(rows))

\* the cells of the grid table
Cells == Flatten(dpg_tables[grid_table].rows)

\* the main program is past build_ui and the window is open
Built == pc \in {"resize0", "loop"}

\* the step built a new grid table
NewTable == grid_table' # grid_table

\* a directory is selected: at start, by a sidebar button or by the dialog
SelectsDirectory ==
    \/ BuildUI
    \/ OnFolderClick
    \/ pc = "loop" /\ \E sel \in Dirs : set_root_directory(sel, grid_child)

\* the old table is gone, one new table exists and its columns are those of
\* the width available_grid_width gives for the width measured in this step
GridRebuilt ==
    /\ grid_table' # grid_table
    /\ grid_table \notin DOMAIN dpg_tables'
    /\ DOMAIN dpg_tables' = {grid_table'}
    /\ dpg_tables'[grid_table'].columns =
          compute_columns(available_grid_width(grid_child', rect_w))

\* name ends, whatever the case of its letters, with a supported extension that
\* follows a non-empty stem
HasSupportedExt(name) ==
    \E e \in SUPPORTED_EXT :
       /\ Len(name) > Len(e)
       /\ Lower(SubSeq(name, Len(name) - Len(e) + 1, Len(name))) = e

----------------------------------------------------------------------------
(* The claims *)

\* C1: a path that has a texture handle keeps that very handle through every
\* later step: its cache entry is neither removed nor replaced, no step decodes
\* the path again, and every grid built later shows the path with that handle.
C1_CachedHandleKept ==
    [][\A p \in DOMAIN thumb_tex :
          /\ p \in DOMAIN thumb_tex'
          /\ thumb_tex'[p] = thumb_tex[p]
          /\ thumb_tex[p] # None
          /\ p \notin DOMAIN decode_calls'
          /\ (NewTable /\ grid_table' \in DOMAIN dpg_tables') =>
                \A c \in Range(Flatten(dpg_tables'[grid_table'].rows)) :
                   c.user_data = p => c.texture_tag = thumb_tex[p]]_vars

\* a grid built after the texture of one of its paths was made shows the
\* path with the cached handle (ids grow, the table's id is drawn first)
C1_Witness ==
    /\ TableExists
    /\ last_w # 0
    /\ \E p \in DOMAIN thumb_tex :
          /\ thumb_tex[p] < grid_table
          /\ \E c \in Range(Cells) :
                c.user_data = p /\ c.texture_tag = thumb_tex[p]

\* C2: a decode that fails returns None (the cell gets no texture) and adds no
\* entry to the cache, which gains exactly the paths decoded with success; so
\* every build decodes again each of its paths that has no entry, and a decode
\* that then succeeds is cached and its handle returned.
C2_FailureNotCached ==
    [][/\ \A p \in DOMAIN decode_calls' :
             ~decode_calls'[p] =>
                /\ Get(thumb_tex', p) = None
                /\ \A c \in Range(Flatten(dpg_tables'[grid_table'].rows)) :
                      c.user_data = p => c.texture_tag = None
       /\ DOMAIN thumb_tex' =
             DOMAIN thumb_tex \cup {p \in DOMAIN decode_calls' : decode_calls'[p]}
       /\ (NewTable /\ PIL_OK) =>
             \A p \in Range(images_in_dir') :
                Get(thumb_tex, p) = None =>
                   /\ p \in DOMAIN decode_calls'
                   /\ decode_calls'[p] =>
                         /\ Get(thumb_tex', p) # None
                         /\ \A c \in Range(Flatten(dpg_tables'[grid_table'].rows)) :
                               c.user_data = p => c.texture_tag = thumb_tex'[p]
      ]_vars

\* the first build (table 1) always lists a.jpg of the home directory; here a
\* later build has just decoded it, so every earlier decode of it had failed
C2_Witness ==
    /\ pc = "loop"
    /\ TableExists
    /\ grid_table > 1
    /\ LET p == Home \o <<a_jpg>>
       IN /\ p \in DOMAIN decode_calls
          /\ decode_calls[p]
          /\ Get(thumb_tex, p) > grid_table
          /\ \E c \in Range(Cells) :
                c.user_data = p /\ c.texture_tag = thumb_tex[p]

\* C3 as stated: the grid is rebuilt whenever a directory is selected or the
\* width a render-loop iteration measures differs from the one seen before.
C3_RebuildOnAnyWidthChange ==
    [][(SelectsDirectory \/ (RenderFrame /\ rect_w # last_w)) => GridRebuilt]_vars

\* C3 as amended: the grid is rebuilt whenever a directory is selected or a
\* render-loop iteration measures a width that is not 0 and differs from
\* last_w; then the old table is gone, exactly one table exists and it has
\* compute_columns(w) columns, w the measured width, or 800 if that is 0.
C3_RebuildOnNonZeroWidthChange ==
    [][(SelectsDirectory \/ (RenderFrame /\ rect_w # 0 /\ rect_w # last_w))
          => GridRebuilt]_vars

\* the render loop has rebuilt the grid for a measured width: the single
\* table has the columns of last_w, fewer than the default width gives
C3_Witness ==
    /\ pc = "loop"
    /\ last_w # 0
    /\ TableExists
    /\ DOMAIN dpg_tables = {grid_table}
    /\ dpg_tables[grid_table].columns = compute_columns(last_w)
    /\ dpg_tables[grid_table].columns < compute_columns(DefaultWidth)

\* C4: a resize (the call at start, the viewport callback, or a width change
\* seen by the render loop) leaves the root, the current directory, the list
\* of images and the sidebar tree as they were.
C4_ResizeKeepsDirectoryState ==
    [][(StartupResize \/ OnResize \/ RenderFrame) =>
          UNCHANGED <<root_dir, current_dir, images_in_dir, sidebar_tree>>]_vars

\* the viewport callback and the render loop have both rebuilt the grid of a
\* folder with images
C4_Witness ==
    /\ pc = "loop"
    /\ main_window = <<1000, 670>>
    /\ last_w # 0
    /\ Len(images_in_dir) = 3
    /\ TableExists

\* C5: list_images returns the paths of exactly the entries that are files
\* whose name ends in a supported extension, whatever its case, each once, in
\* non-decreasing order of the lowered name; when the listing raises it
\* returns the empty list.
C5_ListImages ==
    fn_ret.done =>
       LET out == fn_ret.value
           wanted == {i \in DOMAIN fn_arg.ents :
                         /\ fn_arg.ents[i].kind = "file"
                         /\ HasSupportedExt(fn_arg.ents[i].name)}
       IN IF fn_arg.err THEN out = <<>>
          ELSE /\ Range(out) = {Home \o <<fn_arg.ents[i].name>> : i \in wanted}
               /\ Len(out) = Cardinality(wanted)
               /\ \A i, j \in DOMAIN out :
                     i < j => ~StrLess(Lower(PathName(out[j])),
                                       Lower(PathName(out[i])))

\* the example of the specification: b.PNG, a.jpg, c.txt
C5_Witness ==
    /\ fn_ret.done
    /\ ~fn_arg.err
    /\ fn_arg.ents = <<File(b_PNG), File(a_jpg), File(c_txt)>>
    /\ fn_ret.value = <<Home \o <<a_jpg>>, Home \o <<b_PNG>>>>

\* C6: the grid of N > 0 images in c columns has ceil(N / c) rows, every row
\* but the last has c cells, the last has between 1 and c, and the cells row
\* by row are the images in the order of state["images_in_dir"].
C6_RowsOfGrid ==
    (Built /\ images_in_dir # <<>>) =>
       /\ TableExists
       /\ LET t == dpg_tables[grid_table]
              N == Len(images_in_dir)
              c == t.columns
          IN /\ c >= 1
             /\ Len(t.rows) = (N + c - 1) \div c
             /\ \A r \in DOMAIN t.rows :
                   IF r < Len(t.rows) THEN Len(t.rows[r]) = c
                   ELSE Len(t.rows[r]) >= 1 /\ Len(t.rows[r]) <= c
             /\ [i \in DOMAIN Cells |-> Cells[i].user_data] = images_in_dir

\* three images in two columns: two rows, the last one short
C6_Witness ==
    /\ Built
    /\ TableExists
    /\ Len(images_in_dir) = 3
    /\ dpg_tables[grid_table].columns = 2
    /\ Len(dpg_tables[grid_table].rows) = 2
    /\ Len(dpg_tables[grid_table].rows[2]) = 1

\* C7: compute_columns is at least 1, is 1 for width 0 and 2 for width 500,
\* and applied to a width that is no smaller it returns no less.
C7_ComputeColumns ==
    /\ [](fn_ret.done =>
             /\ fn_ret.value >= 1
             /\ fn_arg = 0 => fn_ret.value = 1
             /\ fn_arg = 500 => fn_ret.value = 2)
    /\ [][(fn_ret.done /\ fn_arg' >= fn_arg) => fn_ret'.value >= fn_ret.value]_vars

\* the example of the specification: width 500 gives 2 columns
C7_Witness == fn_ret.done /\ fn_arg = 500 /\ fn_ret.value = 2

\* C8: the grid of a folder without images has exactly one row, which holds
\* exactly one cell, a text, whatever the number of columns.
C8_PlaceholderCell ==
    (Built /\ images_in_dir = <<>>) =>
       /\ TableExists
       /\ Len(dpg_tables[grid_table].rows) = 1
       /\ Len(dpg_tables[grid_table].rows[1]) = 1
       /\ dpg_tables[grid_table].rows[1][1].kind = "text"
       /\ dpg_tables[grid_table].rows[1][1].label # ""

\* an empty folder shown in a grid of two columns
C8_Witness ==
    /\ pc = "loop"
    /\ images_in_dir = <<>>
    /\ TableExists
    /\ dpg_tables[grid_table].columns = 2
    /\ Len(Cells) = 1

\* C9 as stated: without the imaging library every grid shows no thumbnail,
\* shows each image as a plain "Open" button and shows the notice that the
\* library is missing, whether the folder has images or not.
C9_NoticeWithoutImaging ==
    (Built /\ ~PIL_OK) =>
       /\ TableExists
       /\ \A c \in Range(Cells) : c.kind # "image_button"
       /\ \A p \in Range(images_in_dir) :
             \E c \in Range(Cells) :
                c.user_data = p /\ c.kind = "button" /\ c.label = "Open"
       /\ \E c \in Range(Cells) :
             c.label = "Pillow not installed. Thumbs disabled."

\* C10: every image of the folder has exactly one cell, whose handler carries
\* its path, in the order of the list; the cell is an "Open" button when the
\* path has no texture (its decode failed) and an image button with the
\* cached texture otherwise, whatever happened to the paths around it.
C10_FailureIsLocal ==
    (Built /\ images_in_dir # <<>>) =>
       /\ TableExists
       /\ [i \in DOMAIN Cells |-> Cells[i].user_data] = images_in_dir
       /\ \A p \in DOMAIN decode_calls :
             ~decode_calls[p] => Get(thumb_tex, p) = None
       /\ \A c \in Range(Cells) :
             IF Get(thumb_tex, c.user_data) = None
             THEN c.kind = "button" /\ c.label = "Open" /\ c.texture_tag = None
             ELSE c.kind = "image_button"
                  /\ c.texture_tag = thumb_tex[c.user_data]
       /\ \A p \in Range(images_in_dir) :
             \E i \in DOMAIN thumb_items :
                thumb_items[i] = [item |-> "item_handler_registry", user_data |-> p]

\* three images, the decode of the middle one has just failed: it is an
\* "Open" button between two thumbnails
C10_Witness ==
    /\ Built
    /\ TableExists
    /\ Len(images_in_dir) = 3
    /\ Len(Cells) = 3
    /\ images_in_dir[2] \in DOMAIN decode_calls
    /\ ~decode_calls[images_in_dir[2]]
    /\ Cells[1].kind = "image_button"
    /\ Cells[2].kind = "button"
    /\ Cells[3].kind = "image_button"

====
